---- MODULE Spec2Model ----
(***************************************************************************)
(* The checkout/return entity store of metime_core.                        *)
(*                                                                         *)
(* The repository holds two iterations of the store:                       *)
(*   - src/src/repository/memory_repo.rs : MemoryRepo with a timeline      *)
(*     slot, lend_from_blobs / lend_item;                                  *)
(*   - src/src/lib.rs : MemoryRepo with get_item (typed MismatchedType).   *)
(* The variable repo_impl, fixed by Init, says which one a behaviour runs. *)
(* add_event_body, add_event_instance and RepoRef::drop have the same text *)
(* in both files and are modelled once.                                    *)
(*                                                                         *)
(* A thread's call is split where another thread can observe or delay it:  *)
(* where Mutex::lock waits, and inside the critical section.               *)
(*                                                                         *)
(* Spec       : NumThreads threads on the store's operations.              *)
(* SpecFacade : one thread, with the timeline's contents and add_event.    *)
(***************************************************************************)
EXTENDS Integers, Sequences, FiniteSets, TLC

\* ---------------------------------------------------------------- bounds
NumThreads == 2
MaxIds == 2
MaxTime == 1
MaxDuration == 0
MaxKey == 2

Threads == 1..NumThreads
\* The thread of main(), the only one of the command line program.
MainThread == 1
\* The Uuid values the model draws from.
Ids == 1..MaxIds
\* The address of MemoryRepo.timeline's slot, apart from every Uuid.
TimelineSlot == 0
Times == 0..MaxTime
\* The times a Timeline is given as keys and as range bounds.
Keys == 0..(IF MaxKey > MaxTime THEN MaxKey ELSE MaxTime)
Strings == {"", "Standup"}

\* ------------------------------------------------------------ domain.rs
Instant(t) == [tag |-> "Instant", t |-> t]

Interval(start, duration) == [tag |-> "Interval", start |-> start, duration |-> duration]

TimeSpan == {Instant(t) : t \in Times}
            \cup {Interval(s, d) : s \in Times, d \in 0..MaxDuration}

\* A variant of earliest that answers with the end of an interval.
earliest_end(ts) == IF ts.tag = "Instant" THEN ts.t ELSE ts.start + ts.duration

earliest(ts) == IF ts.tag = "Instant" THEN ts.t ELSE ts.start

\* TimeSpan::latest as the specification describes it (the impl block of
\* domain.rs has earliest only): the end of an interval, t of an instant.
latest(ts) == IF ts.tag = "Instant" THEN ts.t ELSE ts.start + ts.duration

\* The half-open reading of the doc comment on TimeSpan::Interval: the
\* start is part of the span and the end is not; an instant is its point.
within(ts, p) ==
    IF ts.tag = "Instant" THEN p = ts.t
    ELSE ts.start <= p /\ p < ts.start + ts.duration

EventBody == [summary : Strings, description : {""}]

EventInstance == [time_span : TimeSpan, body : Ids]

\* Timeline::default(): an empty BTreeMap.
TimelineDefault == [events |-> <<>>]

\* BTreeMap::insert on Timeline.events: the entry for the key is replaced.
insert_or_keep(events, k, v) ==
    [x \in DOMAIN events \cup {k} |-> IF x \in DOMAIN events THEN events[x] ELSE v]

insert(events, k, v) ==
    [x \in DOMAIN events \cup {k} |-> IF x = k THEN v ELSE events[x]]

\* range(from, to) of the Timeline Index: the (time, id) entries of
\* Timeline.events with from <= time < to, in ascending order of time.
range_inclusive(events, from, to) ==
    [i \in 1..Cardinality({k \in DOMAIN events : from <= k /\ k <= to}) |->
        LET k == CHOOSE k \in DOMAIN events :
                    /\ from <= k /\ k <= to
                    /\ Cardinality({j \in DOMAIN events : from <= j /\ j < k}) = i - 1
        IN  <<k, events[k]>>]

RECURSIVE range(_, _, _)
range(events, from, to) ==
    IF from >= to THEN <<>>
    ELSE (IF from \in DOMAIN events THEN <<(<<from, events[from]>>)>> ELSE <<>>)
            \o range(events, from + 1, to)

\* Every value Timeline.events can take with keys in Keys.
Timeline == UNION {{[events |-> f] : f \in [S -> Ids]} : S \in SUBSET Keys}

\* ------------------------------------------------------- memory_repo.rs
\* Option::None in a slot.
None == [tag |-> "None"]

\* Box<T>: Into<Blob> (derive From): wrap a value with its variant tag.
IntoFirstVariant(ty, v) == [tag |-> "EventInstance", val |-> v]

Into(ty, v) == [tag |-> ty, val |-> v]

\* Blob: TryInto<Box<T>> (derive TryInto): the payload when the variant is
\* T's, otherwise the blob itself handed back (TryIntoError.input).
TryIntoDropsInput(blob, ty) ==
    IF blob.tag = ty THEN [ok |-> TRUE, val |-> blob.val]
                     ELSE [ok |-> FALSE, val |-> [tag |-> "None"]]

TryInto(blob, ty) ==
    IF blob.tag = ty THEN [ok |-> TRUE, val |-> blob.val]
                     ELSE [ok |-> FALSE, val |-> blob]

\* SlotPtr(Arc::new(Mutex::new(contents))): the mutex free and not poisoned.
SlotPtr(contents) == [contents |-> contents, locked |-> FALSE, poisoned |-> FALSE]

\* impl Default for SlotPtr<Box<Timeline>>: filled with T::default().
SlotPtrDefaultEmpty == SlotPtr(None)

SlotPtrDefault == SlotPtr(Into("Timeline", TimelineDefault))

\* The entry add_event_body / add_event_instance construct for value v of
\* type ty: empty, the value travels in the returned RepoRef.
NewEntryFilled(ty, v) == SlotPtr(Into(ty, v))

NewEntry(ty, v) == SlotPtr(None)

\* entry.take(): what is left in the slot.
take_clone(slot) == slot

take(slot) == [slot EXCEPT !.contents = None]

\* home_slot.is_some().
is_some_never(contents) == FALSE

is_some(contents) == contents # None

\* *entry = Some(blob).
fill_lost(slot, blob) == slot

fill(slot, blob) == [slot EXCEPT !.contents = blob]

\* The MutexGuard is dropped: normally, or by a panic that unwinds past it.
unlock(slot) == [slot EXCEPT !.locked = FALSE]

unlock_poison(slot) == [slot EXCEPT !.locked = FALSE, !.poisoned = TRUE]

\* RepoRef { data, home_slot }, with the T it was built for.
RepoRef(slot, ty, data) == [home_slot |-> slot, ty |-> ty, data |-> data]

VARIABLES
    repo_impl,   \* "memory_repo" or "lib": which iteration of the store runs
    timeline,    \* MemoryRepo.timeline: a slot
    blobs,       \* MemoryRepo.blobs (lib.rs: data): Uuid -> slot
    held,        \* per thread, the live RepoRefs it owns, oldest first
    pc,          \* per thread, where it stands in its current call
    op,          \* per thread, the arguments of its current store call
    ret,         \* per thread, what its last checkout returned, until it acts again
    frame        \* per thread, the add_event call it is inside, if any

vars == <<repo_impl, timeline, blobs, held, pc, op, ret, frame>>

NoOp == [slot |-> TimelineSlot, ty |-> "None", h |-> 0]

NoRet == [kind |-> "none"]

NoFrame == [step |-> "none"]

\* MemoryRepo::new(): Default: the timeline slot filled, no blobs.
Init ==
    /\ repo_impl \in {"memory_repo", "lib"}
    /\ timeline = SlotPtrDefault
    /\ blobs = <<>>
    /\ held = [t \in Threads |-> <<>>]
    /\ pc = [t \in Threads |-> "idle"]
    /\ op = [t \in Threads |-> NoOp]
    /\ ret = [t \in Threads |-> NoRet]
    /\ frame = [t \in Threads |-> NoFrame]

Slot(s) == IF s = TimelineSlot THEN timeline ELSE blobs[s]

\* The slots after slot s is replaced by v.
SetSlotShared(s, v) ==
    IF s = TimelineSlot
    THEN /\ timeline' = v
         /\ UNCHANGED blobs
    ELSE /\ blobs' = [i \in DOMAIN blobs |-> v]
         /\ UNCHANGED timeline

SetSlotResync(s, v) ==
    IF s = TimelineSlot
    THEN /\ timeline' = v
         /\ UNCHANGED blobs
    ELSE /\ blobs' = [blobs EXCEPT ![s] = v]
         /\ timeline' =
                IF v.contents.tag = "EventInstance" /\ timeline.contents.tag = "Timeline"
                THEN [timeline EXCEPT !.contents.val.events =
                        insert(@, earliest(v.contents.val.time_span), s)]
                ELSE timeline

SetSlot(s, v) ==
    IF s = TimelineSlot
    THEN /\ timeline' = v
         /\ UNCHANGED blobs
    ELSE /\ blobs' = [blobs EXCEPT ![s] = v]
         /\ UNCHANGED timeline

\* A thread inside a call that borrows the repo (&self or &mut self):
\* add_event_body and add_event_instance take &mut self and cannot run
\* meanwhile.
Borrowing(t) ==
    pc[t] \in {"lend_lock", "lend_locked", "add_event", "fmt_locked"} \/ frame[t] # NoFrame

RemoveAt(seq, i) == [j \in 1..(Len(seq) - 1) |-> IF j < i THEN seq[j] ELSE seq[j + 1]]

\* A panic: the thread starts unwinding, which drops the RepoRefs it owns.
Panicked(t, msg) ==
    /\ pc' = [pc EXCEPT ![t] = "unwind"]
    /\ op' = [op EXCEPT ![t] = NoOp]
    /\ ret' = [ret EXCEPT ![t] = [kind |-> "panic", msg |-> msg]]

Unwinding(t) == ret[t].kind = "panic"

\* Where a thread goes on when a store call returns to it.
Resume(t) == IF frame[t] = NoFrame THEN "idle" ELSE "add_event"

\* The store call of thread t returns r.
Returned(t, r) ==
    /\ pc' = [pc EXCEPT ![t] = Resume(t)]
    /\ op' = [op EXCEPT ![t] = NoOp]
    /\ ret' = [ret EXCEPT ![t] = r]

\* Uuid::new_v4(): a value no earlier call returned. Uuids are opaque and
\* only compared for equality, so the least unused one stands for any.
new_v4_any == Ids

new_v4 == {i \in Ids \ DOMAIN blobs : \A j \in Ids \ DOMAIN blobs : i <= j}

\* The body of add_event_body / add_event_instance with the minted id:
\* self.blobs.insert(id, entry.clone()), and the RepoRef handed to thread t.
add_item_replacing(t, id, ty, v) ==
    /\ blobs' = [i \in {id} |-> NewEntry(ty, v)]
    /\ held' = [held EXCEPT ![t] = Append(@, RepoRef(id, ty, v))]

add_item(t, id, ty, v) ==
    /\ blobs' = [i \in DOMAIN blobs \cup {id} |->
                    IF i = id THEN NewEntry(ty, v) ELSE blobs[i]]
    /\ held' = [held EXCEPT ![t] = Append(@, RepoRef(id, ty, v))]

add_event_body(t) ==
    /\ pc[t] = "idle"
    /\ \A u \in Threads : ~Borrowing(u)
    /\ \E body \in EventBody, id \in new_v4 : add_item(t, id, "EventBody", body)
    /\ ret' = [ret EXCEPT ![t] = NoRet]
    /\ UNCHANGED <<repo_impl, timeline, pc, op, frame>>

\* The instances the command line creates are instants (main.rs).
add_event_instance(t) ==
    /\ pc[t] = "idle"
    /\ \A u \in Threads : ~Borrowing(u)
    /\ \E time \in Times, body \in Ids, id \in new_v4 :
        add_item(t, id, "EventInstance", [time_span |-> Instant(time), body |-> body])
    /\ ret' = [ret EXCEPT ![t] = NoRet]
    /\ UNCHANGED <<repo_impl, timeline, pc, op, frame>>

\* entry_ptr.0.lock().unwrap() in lend_item and get_item, for slot s:
\* the caller waits while another thread holds the mutex; a poisoned mutex
\* makes unwrap panic (the guard inside the error is dropped, so the mutex is
\* left free); otherwise the caller holds the mutex.
lock_unwrap(t, s, ty) ==
    IF Slot(s).locked
    THEN /\ pc' = [pc EXCEPT ![t] = "lend_lock"]
         /\ op' = [op EXCEPT ![t] = [slot |-> s, ty |-> ty, h |-> 0]]
         /\ ret' = [ret EXCEPT ![t] = NoRet]
         /\ UNCHANGED <<timeline, blobs>>
    ELSE IF Slot(s).poisoned
    THEN /\ Panicked(t, "PoisonError")
         /\ UNCHANGED <<timeline, blobs>>
    ELSE /\ SetSlot(s, [Slot(s) EXCEPT !.locked = TRUE])
         /\ pc' = [pc EXCEPT ![t] = "lend_locked"]
         /\ op' = [op EXCEPT ![t] = [slot |-> s, ty |-> ty, h |-> 0]]
         /\ ret' = [ret EXCEPT ![t] = NoRet]

\* .ok_or(RepoRetrievalError::IdNotFound): the error of a failed lookup.
LookupErrorAlready == "AlreadyRetrieved"

LookupError == "IdNotFound"

\* lend_from_blobs (get_event_body, get_event_instance) and lib.rs get_item,
\* up to the lock: IdNotFound for an id that is no key of the map, else on
\* to the slot's mutex.
lend_from_blobs(t) ==
    /\ pc[t] = "idle"
    /\ \E id \in Ids, ty \in {"EventBody", "EventInstance"} :
        IF id \notin DOMAIN blobs
        THEN /\ ret' = [ret EXCEPT ![t] = [kind |-> LookupError, slot |-> id]]
             /\ UNCHANGED <<timeline, blobs, pc, op>>
        ELSE lock_unwrap(t, id, ty)
    /\ UNCHANGED <<repo_impl, held, frame>>

\* get_timeline: lend_item(self.timeline.clone(), Ok), up to the lock.
get_timeline(t) ==
    /\ repo_impl = "memory_repo"
    /\ pc[t] = "idle"
    /\ lock_unwrap(t, TimelineSlot, "Timeline")
    /\ UNCHANGED <<repo_impl, held, frame>>

\* A caller that waited for the mutex gets it once it is free.
lend_item_lock(t) ==
    /\ pc[t] = "lend_lock"
    /\ ~Slot(op[t].slot).locked
    /\ lock_unwrap(t, op[t].slot, op[t].ty)
    /\ UNCHANGED <<repo_impl, held, frame>>

\* What an empty slot is reported as: lend_from_blobs maps lend_item's None
\* to AlreadyRetrieved, get_timeline returns the None itself.
NoneResultNotFound(s) == IF s = TimelineSlot THEN "None" ELSE "IdNotFound"

NoneResult(s) == IF s = TimelineSlot THEN "None" ELSE "AlreadyRetrieved"

\* lend_item under the lock: take the contents, convert, build the RepoRef.
\* A value of another type is put back and the call panics with the guard
\* alive, which poisons the mutex.
lend_item(t) ==
    /\ repo_impl = "memory_repo"
    /\ pc[t] = "lend_locked"
    /\ LET s == op[t].slot
           slot == Slot(s)
           conv == TryInto(slot.contents, op[t].ty)
       IN  IF slot.contents = None
           THEN /\ SetSlot(s, unlock(slot))
                /\ Returned(t, [kind |-> NoneResult(s), slot |-> s])
                /\ UNCHANGED held
           ELSE IF conv.ok
           THEN /\ SetSlot(s, unlock(take(slot)))
                /\ held' = [held EXCEPT ![t] = Append(@, RepoRef(s, op[t].ty, conv.val))]
                /\ Returned(t, [kind |-> "Ok", slot |-> s])
           ELSE /\ SetSlot(s, unlock_poison(fill(take(slot), conv.val)))
                /\ Panicked(t, "entry was not the expected type")
                /\ UNCHANGED held
    /\ UNCHANGED <<repo_impl, frame>>

\* lib.rs get_item under the lock: as lend_item, but a value of another type
\* is put back and reported as MismatchedType.
get_item(t) ==
    /\ repo_impl = "lib"
    /\ pc[t] = "lend_locked"
    /\ LET s == op[t].slot
           slot == Slot(s)
           conv == TryInto(slot.contents, op[t].ty)
       IN  IF slot.contents = None
           THEN /\ SetSlot(s, unlock(slot))
                /\ Returned(t, [kind |-> "AlreadyRetrieved", slot |-> s])
                /\ UNCHANGED held
           ELSE IF conv.ok
           THEN /\ SetSlot(s, unlock(take(slot)))
                /\ held' = [held EXCEPT ![t] = Append(@, RepoRef(s, op[t].ty, conv.val))]
                /\ Returned(t, [kind |-> "Ok", slot |-> s])
           ELSE /\ SetSlot(s, unlock(fill(take(slot), conv.val)))
                /\ Returned(t, [kind |-> "MismatchedType", slot |-> s])
                /\ UNCHANGED held
    /\ UNCHANGED <<repo_impl, frame>>

\* DerefMut on the RepoRef of an entity: the owner writes any value of the
\* handle's type through it.
deref_mut(t) ==
    /\ pc[t] = "idle"
    /\ \E i \in 1..Len(held[t]) :
        /\ held[t][i].ty # "Timeline"
        /\ \E v \in (IF held[t][i].ty = "EventBody" THEN EventBody ELSE EventInstance) :
            /\ v # held[t][i].data
            /\ held' = [held EXCEPT ![t][i].data = v]
    /\ ret' = [ret EXCEPT ![t] = NoRet]
    /\ UNCHANGED <<repo_impl, timeline, blobs, pc, op, frame>>

\* DerefMut on the RepoRef of the timeline: the owner records an instance
\* id at a time, timeline.events.insert(time, id).
record(t) ==
    /\ pc[t] = "idle"
    /\ \E i \in 1..Len(held[t]) :
        /\ held[t][i].ty = "Timeline"
        /\ \E time \in Keys, id \in Ids :
            /\ held' = [held EXCEPT ![t][i].data.events = insert(@, time, id)]
            /\ ret' = [ret EXCEPT ![t] = [kind |-> "Recorded", time |-> time, id |-> id]]
    /\ UNCHANGED <<repo_impl, timeline, blobs, pc, op, frame>>

\* A panic inside drop: the RepoRef is gone with its data; a panic while
\* already unwinding aborts the process.
DropPanicked(t, h, msg) ==
    /\ held' = [held EXCEPT ![t] = RemoveAt(@, h)]
    /\ op' = [op EXCEPT ![t] = NoOp]
    /\ ret' = [ret EXCEPT ![t] = [kind |-> "panic", msg |-> msg]]
    /\ pc' = IF Unwinding(t) THEN [u \in Threads |-> "aborted"]
                             ELSE [pc EXCEPT ![t] = "unwind"]

\* The RepoRefs thread t may drop now: any it owns when it runs normally,
\* the newest one while it unwinds.
Droppable(t) ==
    IF pc[t] = "idle" THEN 1..Len(held[t])
    ELSE IF pc[t] = "unwind" /\ held[t] # <<>> THEN {Len(held[t])}
    ELSE {}

\* RepoRef::drop of the h-th RepoRef of thread t, up to the lock:
\* self.home_slot.0.lock().unwrap(), which waits while another thread holds
\* the mutex.
drop_lock_at(t, h) ==
    LET s == held[t][h].home_slot
    IN  /\ ~Slot(s).locked
        /\ IF Slot(s).poisoned
           THEN /\ DropPanicked(t, h, "PoisonError")
                /\ UNCHANGED <<timeline, blobs>>
           ELSE /\ SetSlot(s, [Slot(s) EXCEPT !.locked = TRUE])
                /\ pc' = [pc EXCEPT ![t] = "drop_locked"]
                /\ op' = [op EXCEPT ![t] = [slot |-> s, ty |-> held[t][h].ty, h |-> h]]
                /\ ret' = [ret EXCEPT ![t] = IF Unwinding(t) THEN @ ELSE NoRet]
                /\ UNCHANGED held

\* A RepoRef goes out of scope.
drop_lock(t) ==
    /\ \E h \in Droppable(t) : drop_lock_at(t, h)
    /\ UNCHANGED <<repo_impl, frame>>

\* The unwinding of a panicked thread ends when it owns nothing more.
unwind_end(t) ==
    /\ pc[t] = "unwind"
    /\ held[t] = <<>>
    /\ pc' = [pc EXCEPT ![t] = "dead"]
    /\ UNCHANGED <<repo_impl, timeline, blobs, held, op, ret, frame>>

\* RepoRef::drop under the lock: panic if the home slot is filled, else move
\* the data into it.
drop(t) ==
    /\ pc[t] = "drop_locked"
    /\ LET s == op[t].slot
           slot == Slot(s)
           ref == held[t][op[t].h]
       IN  IF is_some(slot.contents)
           THEN /\ SetSlot(s, unlock_poison(slot))
                /\ DropPanicked(t, op[t].h, "RepoRef was dropped but its home slot was already filled")
           ELSE /\ SetSlot(s, unlock(fill(slot, Into(ref.ty, ref.data))))
                /\ held' = [held EXCEPT ![t] = RemoveAt(@, op[t].h)]
                /\ op' = [op EXCEPT ![t] = NoOp]
                /\ pc' = [pc EXCEPT ![t] = IF Unwinding(t) THEN "unwind" ELSE Resume(t)]
                /\ UNCHANGED ret
    /\ UNCHANGED <<repo_impl, frame>>

Next ==
    \E t \in Threads :
        \/ add_event_body(t)
        \/ add_event_instance(t)
        \/ lend_from_blobs(t)
        \/ get_timeline(t)
        \/ lend_item_lock(t)
        \/ lend_item(t)
        \/ get_item(t)
        \/ deref_mut(t)
        \/ drop_lock(t)
        \/ drop(t)
        \/ unwind_end(t)

Spec == Init /\ [][Next]_vars

\* ------------------------------------------------- add_event (spec 4.4)
\* add_event(time_span, title, description), step (1): insert the EventBody.
add_event(t) ==
    /\ pc[t] = "idle"
    /\ \A u \in Threads : ~Borrowing(u)
    /\ Cardinality(Ids \ DOMAIN blobs) >= 2
    /\ \E ts \in TimeSpan, title \in Strings, id \in new_v4 :
        /\ add_item(t, id, "EventBody", [summary |-> title, description |-> ""])
        /\ frame' = [frame EXCEPT ![t] =
                        [step |-> "instance", time_span |-> ts, title |-> title,
                         description |-> "", body_id |-> id, instance_id |-> 0]]
    /\ pc' = [pc EXCEPT ![t] = "add_event"]
    /\ ret' = [ret EXCEPT ![t] = NoRet]
    /\ UNCHANGED <<repo_impl, timeline, op>>

\* Step (2): insert the EventInstance referencing the new body's id.
add_event_instance_step(t) ==
    /\ pc[t] = "add_event"
    /\ frame[t].step = "instance"
    /\ \E id \in new_v4 :
        /\ add_item(t, id, "EventInstance",
                    [time_span |-> frame[t].time_span, body |-> frame[t].body_id])
        /\ frame' = [frame EXCEPT ![t].step = "timeline", ![t].instance_id = id]
    /\ UNCHANGED <<repo_impl, timeline, pc, op, ret>>

\* Step (3), first half: check out the timeline (get_timeline).
add_event_get_timeline(t) ==
    /\ pc[t] = "add_event"
    /\ frame[t].step = "timeline"
    /\ lock_unwrap(t, TimelineSlot, "Timeline")
    /\ frame' = [frame EXCEPT ![t].step = "record"]
    /\ UNCHANGED <<repo_impl, held>>

\* Step (3), second half: record(time_span.earliest(), instance id) through
\* the timeline handle; a failed timeline checkout is fatal.
add_event_record(t) ==
    /\ pc[t] = "add_event"
    /\ frame[t].step = "record"
    /\ IF ret[t].kind = "Ok"
       THEN /\ held' = [held EXCEPT ![t][Len(held[t])].data.events =
                            insert(@, earliest(frame[t].time_span), frame[t].instance_id)]
            /\ frame' = [frame EXCEPT ![t].step = "release"]
            /\ ret' = [ret EXCEPT ![t] = NoRet]
            /\ UNCHANGED <<pc, op>>
       ELSE /\ Panicked(t, "timeline was already retrieved")
            /\ frame' = [frame EXCEPT ![t] = NoFrame]
            /\ UNCHANGED held
    /\ UNCHANGED <<repo_impl, timeline, blobs>>

\* Step (4): release the timeline handle.
add_event_release(t) ==
    /\ pc[t] = "add_event"
    /\ frame[t].step = "release"
    /\ drop_lock_at(t, Len(held[t]))
    /\ frame' = [frame EXCEPT ![t].step = "return"]
    /\ UNCHANGED repo_impl

\* Step (5): return both identifiers; the handles of the body and of the
\* instance stay with the caller.
add_event_return(t) ==
    /\ pc[t] = "add_event"
    /\ frame[t].step = "return"
    /\ pc' = [pc EXCEPT ![t] = "idle"]
    /\ ret' = [ret EXCEPT ![t] = [kind |-> "AddEvent", instance_id |-> frame[t].instance_id,
                                  body_id |-> frame[t].body_id]]
    /\ frame' = [frame EXCEPT ![t] = NoFrame]
    /\ UNCHANGED <<repo_impl, timeline, blobs, held, op>>

\* The single-threaded program over the memory_repo.rs store.
InitFacade ==
    /\ Init
    /\ repo_impl = "memory_repo"

NextFacade ==
    \/ add_event_body(MainThread)
    \/ add_event_instance(MainThread)
    \/ lend_from_blobs(MainThread)
    \/ get_timeline(MainThread)
    \/ lend_item(MainThread)
    \/ deref_mut(MainThread)
    \/ record(MainThread)
    \/ drop_lock(MainThread)
    \/ drop(MainThread)
    \/ unwind_end(MainThread)
    \/ add_event(MainThread)
    \/ add_event_instance_step(MainThread)
    \/ add_event_get_timeline(MainThread)
    \/ add_event_record(MainThread)
    \/ add_event_release(MainThread)
    \/ add_event_return(MainThread)

SpecFacade == InitFacade /\ [][NextFacade]_vars

-----------------------------------------------------------------------------
\* The debug view: impl Debug for SlotPtr (memory_repo.rs) and the loop body
\* of impl Debug for MemoryRepo (lib.rs), one slot at a time.

\* f.write_str(text).
Placeholder(text) == [shown |-> "placeholder", text |-> text]

\* repo_entry.fmt(f): the Debug text of the entity in the slot.
EntityFmt(blob) == [shown |-> "entity", val |-> blob]

\* poison_error.get_ref().fmt(f): the Debug text of the guarded
\* Option<T>, "Some(..)" around the entity's text, or "None".
OptionFmt(contents) == [shown |-> "Option", val |-> contents]

\* The Err(TryLockError::Poisoned(..)) arm of the match.
PoisonedFmt(contents) == OptionFmt(contents)

\* The Ok(entry) arm with entry = None.
RetrievedElsewhere == Placeholder("<retrieved elsewhere>")

\* entry.try_lock() on a slot of the store: WouldBlock is rendered as
\* "<locked>" at once; otherwise the viewer holds the guard (also inside a
\* Poisoned error) until the match is done.
fmt_try_lock(t) ==
    /\ pc[t] = "idle"
    /\ \E s \in DOMAIN blobs \cup (IF repo_impl = "memory_repo" THEN {TimelineSlot} ELSE {}) :
        IF Slot(s).locked
        THEN /\ ret' = [ret EXCEPT ![t] = [kind |-> "Debug", slot |-> s,
                                           out |-> Placeholder("<locked>")]]
             /\ UNCHANGED <<timeline, blobs, pc, op>>
        ELSE /\ SetSlot(s, [Slot(s) EXCEPT !.locked = TRUE])
             /\ pc' = [pc EXCEPT ![t] = "fmt_locked"]
             /\ op' = [op EXCEPT ![t] = [slot |-> s, ty |-> "None", h |-> 0]]
             /\ ret' = [ret EXCEPT ![t] = NoRet]
    /\ UNCHANGED <<repo_impl, held, frame>>

\* The arms of the match under the guard, which is dropped at its end.
fmt(t) ==
    /\ pc[t] = "fmt_locked"
    /\ LET s == op[t].slot
           slot == Slot(s)
       IN  /\ SetSlot(s, unlock(slot))
           /\ Returned(t, [kind |-> "Debug", slot |-> s,
                           out |-> IF slot.poisoned THEN PoisonedFmt(slot.contents)
                                   ELSE IF slot.contents = None THEN RetrievedElsewhere
                                   ELSE EntityFmt(slot.contents)])
    /\ UNCHANGED <<repo_impl, held, frame>>

\* One thread works on the store while the others look at it.
NextView ==
    \/ add_event_body(MainThread)
    \/ add_event_instance(MainThread)
    \/ lend_from_blobs(MainThread)
    \/ get_timeline(MainThread)
    \/ lend_item_lock(MainThread)
    \/ lend_item(MainThread)
    \/ get_item(MainThread)
    \/ deref_mut(MainThread)
    \/ drop_lock(MainThread)
    \/ drop(MainThread)
    \/ unwind_end(MainThread)
    \/ \E t \in Threads \ {MainThread} : fmt_try_lock(t) \/ fmt(t)

SpecView == Init /\ [][NextView]_vars

-----------------------------------------------------------------------------
\* Drop::drop on its own, as a function of the RepoRef and of whatever its
\* home slot holds when it runs: one RepoRef, for a slot with any contents.
InitRelease ==
    /\ repo_impl \in {"memory_repo", "lib"}
    /\ timeline = SlotPtrDefault
    /\ blobs \in {[i \in {id} |-> SlotPtr(c)] :
                    id \in Ids,
                    c \in {None} \cup {Into("EventBody", b) : b \in EventBody}
                                 \cup {Into("EventInstance", e) : e \in EventInstance}}
    /\ held \in {[t \in Threads |-> IF t = MainThread THEN <<r>> ELSE <<>>] :
                    r \in {RepoRef(id, "EventBody", b) : id \in Ids, b \in EventBody}
                          \cup {RepoRef(id, "EventInstance", e) : id \in Ids, e \in EventInstance}}
    /\ held[MainThread][1].home_slot \in DOMAIN blobs
    /\ pc = [t \in Threads |-> "idle"]
    /\ op = [t \in Threads |-> NoOp]
    /\ ret = [t \in Threads |-> NoRet]
    /\ frame = [t \in Threads |-> NoFrame]

NextRelease ==
    \/ drop_lock(MainThread)
    \/ drop(MainThread)
    \/ unwind_end(MainThread)

SpecRelease == InitRelease /\ [][NextRelease]_vars

\* =================================================================
\* src/bin/cli/parse.rs: the lenient time span parser
\* =================================================================
\* The text handed to the parser is kept field by field, each number as
\* the sequence of its digits, so that lexing, the calendar, the offset
\* arithmetic and the subtraction are all computed.
Some(v) == [tag |-> "Some", val |-> v]

WrittenYears == {None, Some(<<2, 0, 2, 3>>)}

WrittenMonths == {<<2>>}

WrittenDays == {<<2, 8>>, <<2, 9>>}

WrittenDates == [year : WrittenYears, month : WrittenMonths, day : WrittenDays]

WrittenTimes ==
    [hour : {<<1>>, <<1, 4>>}, min : {<<3, 0>>}, sec : {None, Some(<<1, 5>>)}]
    \cup {[hour |-> <<2, 4>>, min |-> <<3, 0>>, sec |-> None]}

\* "Z", nothing, or sign hours ":" minutes ("+2:5" has one minute digit).
WrittenOffsets ==
    {[form |-> "Z"], [form |-> ""],
     [form |-> "fixed", sign |-> "+", hours |-> <<2>>, mins |-> <<0, 0>>],
     [form |-> "fixed", sign |-> "-", hours |-> <<0, 2>>, mins |-> <<3, 0>>],
     [form |-> "fixed", sign |-> "-", hours |-> <<2, 4>>, mins |-> <<0, 0>>],
     [form |-> "fixed", sign |-> "+", hours |-> <<2>>, mins |-> <<5>>]}

WrittenInstants == [date : WrittenDates, time : WrittenTimes, offset : WrittenOffsets]

\* instant, instant "/" instant, instant "/" time, instant "/" time "Z",
\* date, date "/" date.
Inputs ==
    {[form |-> "instant", start |-> s] : s \in WrittenInstants}
    \cup {[form |-> "instant/instant", start |-> s, end |-> e] :
            s \in WrittenInstants, e \in WrittenInstants}
    \cup {[form |-> "instant/time", start |-> s, end |-> e] :
            s \in WrittenInstants, e \in WrittenTimes}
    \cup {[form |-> "instant/timeZ", start |-> s, end |-> e] :
            s \in WrittenInstants, e \in WrittenTimes}
    \cup {[form |-> "date", start |-> s] : s \in WrittenDates}
    \cup {[form |-> "date/date", start |-> s, end |-> e] :
            s \in WrittenDates, e \in WrittenDates}

\* What the process reads from its surroundings: Utc::now().year() and the
\* offset of the Local time zone in seconds east (a zone without
\* transitions on the days written).
NowYears == {2023, 2024}

LocalOffsets == {-18000, 3600}

\* rule decimal_int: between lo and hi digits, read as a number.
RECURSIVE parse_u32(_)
parse_u32(num) ==
    IF num = <<>> THEN 0
    ELSE 10 * parse_u32(SubSeq(num, 1, Len(num) - 1)) + num[Len(num)]

decimal_int(num, lo, hi) ==
    IF Len(num) \in lo..hi THEN Some(parse_u32(num)) ELSE None

\* rule sign.
sign(s) == IF s = "+" THEN 1 ELSE -1

\* A variant of fixed_offset that drops the sign.
fixed_offset_unsigned(s, hours, mins) == hours * 3600 + mins * 60

\* rule fixed_offset: seconds, positive east.
fixed_offset(s, hours, mins) == sign(s) * (hours * 3600 + mins * 60)

\* rule offset: "Z", a fixed offset, or nothing. A malformed fixed offset
\* matches the empty alternative and its text is left over, which fails
\* whatever comes next.
offset(w) ==
    IF w.form = "Z" THEN Some([tag |-> "Utc"])
    ELSE IF w.form = ""  THEN Some([tag |-> "LocalTime"])
    ELSE LET hours == decimal_int(w.hours, 1, 2)
             mins  == decimal_int(w.mins, 2, 2)
         IN  IF hours = None \/ mins = None THEN None
             ELSE Some([tag |-> "FixedOffset",
                        secs |-> fixed_offset(w.sign, hours.val, mins.val)])

\* rule time: hours ":" minutes and optional ":" seconds.
time(w) ==
    LET h == decimal_int(w.hour, 1, 2)
        m == decimal_int(w.min, 2, 2)
        s == IF w.sec = None THEN Some(0) ELSE decimal_int(w.sec.val, 2, 2)
    IN  IF h = None \/ m = None \/ s = None THEN None
        ELSE Some([hour |-> h.val, min |-> m.val, sec |-> s.val])

\* rule date: an optional four digit year, month "-" day.
date(w) ==
    LET y == IF w.year = None THEN Some(None)
             ELSE IF decimal_int(w.year.val, 4, 4) = None THEN None
             ELSE Some(Some(decimal_int(w.year.val, 4, 4).val))
        m == decimal_int(w.month, 1, 2)
        d == decimal_int(w.day, 1, 2)
    IN  IF y = None \/ m = None \/ d = None THEN None
        ELSE Some([year |-> y.val, month |-> m.val, day |-> d.val])

\* rule instant: date "T" time offset.
instant(w) ==
    IF date(w.date) = None \/ time(w.time) = None \/ offset(w.offset) = None
    THEN None
    ELSE Some([date |-> date(w.date).val, time |-> time(w.time).val,
               offset |-> offset(w.offset).val])

\* A variant of the shorthand whose end is read as UTC.
shorthand_end_utc(start, end_time) ==
    [start EXCEPT !.time = end_time, !.offset = [tag |-> "Utc"]]

\* LexedInstant { time: end_time, ..start }
shorthand_end(start, end_time) == [start EXCEPT !.time = end_time]

\* pub rule time_span: the whole input must match. The alternative with a
\* number of days can never match (it asks for usize::MAX digits).
time_span(input) ==
    IF input.form \in {"date", "date/date"}
    THEN IF date(input.start) = None THEN None
         ELSE IF input.form = "date"
         THEN Some([tag |-> "DateIntervalStartDuration",
                    start |-> date(input.start).val, duration_days |-> None])
         ELSE IF date(input.end) = None THEN None
         ELSE Some([tag |-> "DateIntervalStartEnd",
                    start |-> date(input.start).val, end |-> date(input.end).val])
    ELSE IF instant(input.start) = None THEN None
    ELSE IF input.form = "instant"
    THEN Some([tag |-> "Instant", at |-> instant(input.start).val])
    ELSE IF input.form = "instant/instant"
    THEN IF instant(input.end) = None THEN None
         ELSE Some([tag |-> "InstantIntervalStartEnd",
                    start |-> instant(input.start).val,
                    end |-> instant(input.end).val])
    ELSE IF input.form = "instant/time"
    THEN IF time(input.end) = None THEN None
         ELSE Some([tag |-> "InstantIntervalStartEnd",
                    start |-> instant(input.start).val,
                    end |-> shorthand_end(instant(input.start).val,
                                          time(input.end).val)])
    ELSE None

\* chrono: the proleptic Gregorian calendar, in days since 1970-01-01.
is_leap_year(y) == y % 4 = 0 /\ (y % 100 # 0 \/ y % 400 = 0)

days_in_month(y, m) ==
    IF m = 2 THEN (IF is_leap_year(y) THEN 29 ELSE 28)
    ELSE IF m \in {4, 6, 9, 11} THEN 30 ELSE 31

days_from_civil(y, m, d) ==
    LET yy  == IF m <= 2 THEN y - 1 ELSE y
        era == yy \div 400
        yoe == yy - era * 400
        mp  == IF m > 2 THEN m - 3 ELSE m + 9
        doy == (153 * mp + 2) \div 5 + d - 1
        doe == yoe * 365 + yoe \div 4 - yoe \div 100 + doy
    IN  era * 146097 + doe - 719468

\* NaiveDate::from_ymd_opt
from_ymd_opt(y, m, d) ==
    IF m \in 1..12 /\ d \in 1..days_in_month(y, m)
    THEN Some(days_from_civil(y, m, d)) ELSE None

\* NaiveDate::and_hms_opt: seconds since the epoch, read without a zone.
and_hms_opt(days, h, m, s) ==
    IF h < 24 /\ m < 60 /\ s < 60
    THEN Some(days * 86400 + h * 3600 + m * 60 + s) ELSE None

\* FixedOffset::east_opt: less than a day either way.
east_opt(secs) == IF -86400 < secs /\ secs < 86400 THEN Some(secs) ELSE None

\* parse_date: a missing year is the current one.
parse_date(d, now_year) ==
    from_ymd_opt(IF d.year = None THEN now_year ELSE d.year.val, d.month, d.day)

\* parse_instant: the UTC instant, in seconds since the epoch.
parse_instant(i, now_year, local) ==
    LET naive_date == parse_date(i.date, now_year)
    IN  IF naive_date = None THEN None
        ELSE LET naive_dt == and_hms_opt(naive_date.val, i.time.hour,
                                         i.time.min, i.time.sec)
             IN  IF naive_dt = None THEN None
                 ELSE IF i.offset.tag = "Utc" THEN Some(naive_dt.val)
                 ELSE IF i.offset.tag = "FixedOffset"
                 THEN IF east_opt(i.offset.secs) = None THEN None
                      ELSE Some(naive_dt.val - east_opt(i.offset.secs).val)
                 ELSE Some(naive_dt.val - local)

\* parse_lenient_time_span: None, Some(span), or the panic of todo!().
parse_lenient_time_span(input, now_year, local) ==
    LET lexed == time_span(input)
    IN  IF lexed = None THEN [kind |-> "Parsed", out |-> None]
        ELSE IF lexed.val.tag = "Instant"
        THEN LET at == parse_instant(lexed.val.at, now_year, local)
             IN  [kind |-> "Parsed",
                  out |-> IF at = None THEN None ELSE Some(Instant(at.val))]
        ELSE IF lexed.val.tag = "InstantIntervalStartEnd"
        THEN LET start == parse_instant(lexed.val.start, now_year, local)
                 end   == parse_instant(lexed.val.end, now_year, local)
             IN  [kind |-> "Parsed",
                  out |-> IF start = None \/ end = None THEN None
                          ELSE Some(Interval(start.val, end.val - start.val))]
        ELSE [kind |-> "panic",
              msg |-> "not yet implemented: implement date timespans"]

\* The command line of thread t: the text and the surroundings.
Args(input, now_year, local) ==
    [step |-> "time_span", input |-> input, now_year |-> now_year, local |-> local]

\* The call of parse_lenient_time_span on the text of thread t.
parse(t) ==
    /\ pc[t] = "idle"
    /\ frame[t].step = "time_span"
    /\ LET r == parse_lenient_time_span(frame[t].input, frame[t].now_year,
                                        frame[t].local)
       IN  /\ ret' = [ret EXCEPT ![t] = r]
           /\ pc' = [pc EXCEPT ![t] = IF r.kind = "panic" THEN "unwind" ELSE "parsed"]
    /\ UNCHANGED <<repo_impl, timeline, blobs, held, op, frame>>

\* The derived operations on the span the parser returned.
derived(t) ==
    /\ pc[t] = "parsed"
    /\ ret[t].kind = "Parsed"
    /\ ret[t].out # [tag |-> "None"]
    /\ ret' = [ret EXCEPT ![t] = [kind |-> "Derived", span |-> ret[t].out.val,
                                   earliest |-> earliest(ret[t].out.val),
                                   latest |-> latest(ret[t].out.val)]]
    /\ pc' = [pc EXCEPT ![t] = "derived"]
    /\ UNCHANGED <<repo_impl, timeline, blobs, held, op, frame>>

InitParse ==
    /\ repo_impl \in {"memory_repo"}
    /\ timeline = SlotPtrDefault
    /\ blobs = <<>>
    /\ held = [t \in Threads |-> <<>>]
    /\ pc = [t \in Threads |-> "idle"]
    /\ op = [t \in Threads |-> NoOp]
    /\ ret = [t \in Threads |-> NoRet]
    /\ frame \in {[t \in Threads |-> IF t = MainThread THEN Args(i, y, l) ELSE NoFrame] :
                    i \in Inputs, y \in NowYears, l \in LocalOffsets}

NextParse ==
    \/ parse(MainThread)
    \/ derived(MainThread)
    \/ unwind_end(MainThread)

SpecParse == InitParse /\ [][NextParse]_vars

\* =================================================================
\* Properties
\* =================================================================
AllSlots == {TimelineSlot} \cup Ids

\* The live handles: <<owner, position among the owner's handles>>.
Live == {<<t, i>> \in Threads \X (1..(MaxIds + 2)) : i <= Len(held[t])}

LiveOn(s) == {h \in Live : held[h[1]][h[2]].home_slot = s}

\* Thread t leaves the critical section of a checkout in this step.
CheckoutEnds(t) == pc[t] = "lend_locked" /\ pc'[t] # "lend_locked"

\* Thread t leaves the critical section of a release in this step.
ReleaseEnds(t) == pc[t] = "drop_locked" /\ pc'[t] # "drop_locked"

\* The handle a checkout has just given thread t (after the step).
NewHandle(t) == held'[t][Len(held'[t])]

\* C1: for every slot (every entity identifier and the timeline slot), in
\* every interleaving of inserts, checkouts and releases by the threads, at
\* most one live handle for that slot exists.
C1_Exclusivity == \A s \in AllSlots : Cardinality(LiveOn(s)) <= 1

\* Two threads raced for the same slot: one has its handle, the other is
\* still at the slot's lock.
C1_Witness ==
    \E t \in Threads, u \in Threads, s \in AllSlots :
        /\ t # u
        /\ ret[t] = [kind |-> "Ok", slot |-> s]
        /\ Cardinality(LiveOn(s)) = 1
        /\ pc[u] = "lend_lock"
        /\ op[u].slot = s

\* C2: a checkout of an identifier whose entity is held by a live handle
\* fails with AlreadyRetrieved, and every live handle (the first one
\* included) is the same after the failed attempt as before; a held entity's
\* slot is never poisoned, so the attempt does not panic at the lock either.
C2_SecondCheckoutFails ==
    /\ [](\A s \in Ids : LiveOn(s) # {} => ~Slot(s).poisoned)
    /\ [][\A t \in Threads :
            (CheckoutEnds(t) /\ op[t].slot \in Ids /\ LiveOn(op[t].slot) # {})
                => /\ ret'[t] = [kind |-> "AlreadyRetrieved", slot |-> op[t].slot]
                   /\ pc'[t] = "idle"
                   /\ held' = held]_vars

\* A thread was refused an entity that another thread holds.
C2_Witness ==
    \E t \in Threads, u \in Threads, s \in Ids :
        /\ t # u
        /\ ret[t] = [kind |-> "AlreadyRetrieved", slot |-> s]
        /\ \E h \in LiveOn(s) : h[1] = u

\* C3: round trip. A release leaves in the slot the value the handle holds
\* at that moment (the mutated one); nothing but a successful checkout
\* changes the contents of an occupied slot; and a successful checkout hands
\* out exactly the value in the slot.
C3_RoundTrip ==
    [][/\ \A t \in Threads :
            (ReleaseEnds(t) /\ op[t].slot \in Ids)
                => blobs'[op[t].slot].contents =
                        [tag |-> op[t].ty, val |-> held[t][op[t].h].data]
       /\ \A t \in Threads :
            (CheckoutEnds(t) /\ op[t].slot \in Ids /\ ret'[t].kind = "Ok")
                => /\ Len(held'[t]) = Len(held[t]) + 1
                   /\ NewHandle(t) = [home_slot |-> op[t].slot, ty |-> op[t].ty,
                                      data |-> blobs[op[t].slot].contents.val]
       /\ \A s \in DOMAIN blobs :
            (blobs[s].contents # None /\ blobs'[s].contents # blobs[s].contents)
                => \E t \in Threads :
                     CheckoutEnds(t) /\ op[t].slot = s /\ ret'[t].kind = "Ok"]_vars

\* An instance is inserted as an Instant (add_event_instance); here a
\* checkout has just handed out an instance whose span is an Interval, which
\* it got through a handle and a release.
C3_Witness ==
    \E t \in Threads :
        /\ ret[t].kind = "Ok"
        /\ ret[t].slot \in Ids
        /\ held[t] # <<>>
        /\ held[t][Len(held[t])].home_slot = ret[t].slot
        /\ held[t][Len(held[t])].ty = "EventInstance"
        /\ held[t][Len(held[t])].data.time_span.tag = "Interval"

\* C4 (as claimed): a checkout with the wrong type on an occupied slot
\* returns the MismatchedType error value and leaves the slot as it was,
\* occupied by the original value and usable, so that the correctly typed
\* checkout that follows succeeds with that value.
C4_WrongTypeIsAnErrorValue ==
    [][\A t \in Threads :
        (/\ CheckoutEnds(t)
         /\ op[t].slot \in Ids
         /\ blobs[op[t].slot].contents # None
         /\ blobs[op[t].slot].contents.tag # op[t].ty)
            => /\ ret'[t] = [kind |-> "MismatchedType", slot |-> op[t].slot]
               /\ blobs'[op[t].slot] = [contents |-> blobs[op[t].slot].contents,
                                        locked |-> FALSE, poisoned |-> FALSE]]_vars

\* C4 holds of lib.rs get_item, the iteration with the MismatchedType
\* variant (a supporting check, not the claim's verdict).
C4_OnLib ==
    [][repo_impl = "lib" =>
        \A t \in Threads :
        (/\ CheckoutEnds(t)
         /\ op[t].slot \in Ids
         /\ blobs[op[t].slot].contents # None
         /\ blobs[op[t].slot].contents.tag # op[t].ty)
            => /\ ret'[t] = [kind |-> "MismatchedType", slot |-> op[t].slot]
               /\ blobs'[op[t].slot] = [contents |-> blobs[op[t].slot].contents,
                                        locked |-> FALSE, poisoned |-> FALSE]]_vars

\* Thread t issues, in this step, a checkout (of either type) of id.
CheckoutIssued(t, id) ==
    /\ pc[t] = "idle"
    /\ \/ /\ ret'[t] # ret[t]
          /\ ret'[t].kind \in {"Ok", "IdNotFound", "AlreadyRetrieved", "MismatchedType"}
          /\ ret'[t].slot = id
       \/ /\ pc'[t] \in {"lend_lock", "lend_locked"}
          /\ op'[t].slot = id

\* C5: in every reachable state a checkout, of either type, of an identifier
\* that no insert has returned fails with IdNotFound at once and changes
\* neither the store nor any handle.
C5_UnknownIdNotFound ==
    [][\A t \in Threads : \A id \in Ids \ DOMAIN blobs :
        CheckoutIssued(t, id)
            => /\ ret'[t] = [kind |-> "IdNotFound", slot |-> id]
               /\ pc'[t] = "idle"
               /\ UNCHANGED <<timeline, blobs, held>>]_vars

\* A thread was told IdNotFound for an id the non-empty store does not know.
C5_Witness ==
    \E t \in Threads :
        /\ ret[t].kind = "IdNotFound"
        /\ ret[t].slot \notin DOMAIN blobs
        /\ DOMAIN blobs # {}

\* C6: an insert adds exactly one slot, empty and with a free mutex, and
\* hands its caller the one live handle of that slot, holding the inserted
\* value; while a slot's handle is live the slot stays empty, so a checkout
\* of it ends with AlreadyRetrieved; the release of the handle leaves the
\* slot occupied by the value the caller left in the handle, free and not
\* poisoned; and a correctly typed checkout of an occupied slot succeeds with
\* the value in the slot.
C6_InsertIsCheckedOut ==
    /\ [](\A s \in DOMAIN blobs : LiveOn(s) # {} => blobs[s].contents = None)
    /\ [][/\ DOMAIN blobs' # DOMAIN blobs =>
                \E t \in Threads, id \in Ids \ DOMAIN blobs :
                    /\ DOMAIN blobs' = DOMAIN blobs \cup {id}
                    /\ blobs'[id] = [contents |-> None, locked |-> FALSE, poisoned |-> FALSE]
                    /\ \A s \in DOMAIN blobs : blobs'[s] = blobs[s]
                    /\ Len(held'[t]) = Len(held[t]) + 1
                    /\ NewHandle(t).home_slot = id
                    /\ NewHandle(t).data \in EventBody \cup EventInstance
                    /\ \A u \in Threads \ {t} : held'[u] = held[u]
          /\ \A t \in Threads :
                (CheckoutEnds(t) /\ op[t].slot \in Ids
                                 /\ blobs[op[t].slot].contents = None)
                    => ret'[t] = [kind |-> "AlreadyRetrieved", slot |-> op[t].slot]
          /\ \A t \in Threads :
                (ReleaseEnds(t) /\ op[t].slot \in Ids)
                    => blobs'[op[t].slot] =
                        [contents |-> [tag |-> held[t][op[t].h].ty,
                                       val |-> held[t][op[t].h].data],
                         locked |-> FALSE, poisoned |-> FALSE]
          /\ \A t \in Threads :
                (/\ CheckoutEnds(t)
                 /\ op[t].slot \in Ids
                 /\ blobs[op[t].slot].contents # None
                 /\ blobs[op[t].slot].contents.tag = op[t].ty)
                    => /\ ret'[t] = [kind |-> "Ok", slot |-> op[t].slot]
                       /\ NewHandle(t).data = blobs[op[t].slot].contents.val]_vars

\* The store holds one entity, inserted and not yet released by its owner,
\* and another thread's checkout of it was refused.
C6_Witness ==
    \E t \in Threads, u \in Threads, s \in Ids :
        /\ t # u
        /\ DOMAIN blobs = {s}
        /\ Len(held[u]) = 1
        /\ held[u][1].home_slot = s
        /\ blobs[s] = [contents |-> None, locked |-> FALSE, poisoned |-> FALSE]
        /\ ret[t] = [kind |-> "AlreadyRetrieved", slot |-> s]
        /\ \A v \in Threads : ret[v].kind # "Ok"

\* C7: no interleaving of the store's operations reaches a release whose
\* home slot is occupied: a handle inside drop always finds its slot empty,
\* and no thread has panicked with drop's message.
C7_DropFindsSlotEmpty ==
    \A t \in Threads :
        /\ pc[t] = "drop_locked" => Slot(op[t].slot).contents = None
        /\ ~(/\ ret[t].kind = "panic"
             /\ ret[t].msg = "RepoRef was dropped but its home slot was already filled")

\* A thread that panicked (a checkout with the wrong type) is inside the
\* release of a handle it owned, while another thread holds a handle too.
C7_Witness ==
    \E t \in Threads, u \in Threads :
        /\ t # u
        /\ pc[t] = "drop_locked"
        /\ Unwinding(t)
        /\ held[u] # <<>>

\* C8 (as claimed): no checkout is ever pending on a slot's lock.
C8_NoCheckoutWaits == \A t \in Threads : pc[t] # "lend_lock"

\* C9: the timeline has a slot of its own, filled with an empty timeline
\* when the store is created. The slot is occupied exactly when no timeline
\* handle is live; get_timeline then succeeds with the slot's timeline, and
\* returns None, leaving every handle as it was, while a timeline handle is
\* live; a release puts the handle's timeline, with every entry recorded
\* through it, in the slot, which nothing but a successful get_timeline
\* changes afterwards.
C9_TimelineSlot ==
    /\ timeline = [contents |-> [tag |-> "Timeline", val |-> [events |-> <<>>]],
                   locked |-> FALSE, poisoned |-> FALSE]
    /\ [](/\ ~timeline.poisoned
          /\ LiveOn(TimelineSlot) = {} =>
                timeline.contents.tag = "Timeline" /\ timeline.contents.val \in Timeline
          /\ LiveOn(TimelineSlot) # {} => timeline.contents = None)
    /\ [][/\ \A t \in Threads :
                (CheckoutEnds(t) /\ op[t].slot = TimelineSlot)
                    => IF LiveOn(TimelineSlot) = {}
                       THEN /\ ret'[t] = [kind |-> "Ok", slot |-> TimelineSlot]
                            /\ NewHandle(t) = [home_slot |-> TimelineSlot, ty |-> "Timeline",
                                               data |-> timeline.contents.val]
                       ELSE /\ ret'[t] = [kind |-> "None", slot |-> TimelineSlot]
                            /\ held' = held
          /\ \A t \in Threads :
                (ReleaseEnds(t) /\ op[t].slot = TimelineSlot)
                    => timeline' = [contents |-> [tag |-> "Timeline",
                                                  val |-> held[t][op[t].h].data],
                                    locked |-> FALSE, poisoned |-> FALSE]
          /\ (timeline.contents # None /\ timeline'.contents # timeline.contents)
                => \E t \in Threads :
                     CheckoutEnds(t) /\ op[t].slot = TimelineSlot /\ ret'[t].kind = "Ok"]_vars

\* get_timeline has just handed out a timeline with entries: they were
\* recorded through an earlier handle, which was released.
C9_Witness ==
    /\ ret[MainThread] = [kind |-> "Ok", slot |-> TimelineSlot]
    /\ held[MainThread] # <<>>
    /\ held[MainThread][Len(held[MainThread])].ty = "Timeline"
    /\ DOMAIN held[MainThread][Len(held[MainThread])].data.events # {}

\* The handle thread t owns for slot s holds value v.
Holds(t, s, ty, v) ==
    \E i \in 1..Len(held[t]) : held[t][i] = [home_slot |-> s, ty |-> ty, data |-> v]

\* The steps of add_event, in the order it takes them.
AddEventOrder ==
    {<<"none", "instance">>, <<"instance", "timeline">>, <<"timeline", "record">>,
     <<"record", "release">>, <<"release", "return">>, <<"return", "none">>}

C11_DebugView ==
    [][\A t \in Threads :
        /\ (pc[t] = "idle" /\ ret'[t] # ret[t] /\ ret'[t].kind = "Debug")
            => /\ Slot(ret'[t].slot).locked
               /\ ret'[t].out = [shown |-> "placeholder", text |-> "<locked>"]
               /\ UNCHANGED <<timeline, blobs, held, pc>>
        /\ (pc[t] = "fmt_locked" /\ pc'[t] # "fmt_locked")
            => /\ pc'[t] = "idle"
               /\ ret'[t].kind = "Debug"
               /\ ret'[t].out =
                    IF Slot(op[t].slot).contents = [tag |-> "None"]
                    THEN [shown |-> "placeholder", text |-> "<retrieved elsewhere>"]
                    ELSE [shown |-> "entity", val |-> Slot(op[t].slot).contents]
               /\ timeline'.contents = timeline.contents
               /\ \A id \in DOMAIN blobs : blobs'[id].contents = blobs[id].contents
               /\ held' = held]_vars

\* The same for the slots whose mutex is not poisoned.
C11_Unpoisoned ==
    [][\A t \in Threads :
        /\ (pc[t] = "idle" /\ ret'[t] # ret[t] /\ ret'[t].kind = "Debug")
            => /\ Slot(ret'[t].slot).locked
               /\ ret'[t].out = [shown |-> "placeholder", text |-> "<locked>"]
               /\ UNCHANGED <<timeline, blobs, held, pc>>
        /\ (pc[t] = "fmt_locked" /\ pc'[t] # "fmt_locked")
            => /\ pc'[t] = "idle"
               /\ ret'[t].kind = "Debug"
               /\ ~Slot(op[t].slot).poisoned =>
                    ret'[t].out =
                        IF Slot(op[t].slot).contents = [tag |-> "None"]
                        THEN [shown |-> "placeholder", text |-> "<retrieved elsewhere>"]
                        ELSE [shown |-> "entity", val |-> Slot(op[t].slot).contents]
               /\ timeline'.contents = timeline.contents
               /\ \A id \in DOMAIN blobs : blobs'[id].contents = blobs[id].contents
               /\ held' = held]_vars

\* The timelines of a state: the one in the timeline slot and the one every
\* live timeline handle holds.
Timelines ==
    (IF timeline.contents.tag = "Timeline" THEN {timeline.contents.val} ELSE {})
        \cup {held[t][i].data : <<t, i>> \in
                {x \in Live : held[x[1]][x[2]].ty = "Timeline"}}

\* C12: for every set of recorded entries and every pair of bounds from, to,
\* range(from, to) yields exactly the recorded (time, id) pairs with
\* from <= time < to, each once, in ascending order of time; range(t, t) is
\* empty and an entry at exactly to is left out.
C12_RangeHalfOpenAscending ==
    \A tl \in Timelines : \A from \in 0..(MaxKey + 1) : \A to \in 0..(MaxKey + 1) :
        LET r == range(tl.events, from, to)
        IN  /\ {r[i] : i \in 1..Len(r)}
                = {<<k, tl.events[k]>> : k \in {k \in DOMAIN tl.events : from <= k /\ k < to}}
            /\ \A i \in 1..(Len(r) - 1) : r[i][1] < r[i + 1][1]
            /\ (from = to => r = <<>>)
            /\ \A i \in 1..Len(r) : r[i][1] # to

\* Entries at three times t1 < t2 < t3: range(t1, t3) is the first two in
\* order, range(t2, t2) is empty.
C12_Witness ==
    /\ timeline.contents.tag = "Timeline"
    /\ LET events == timeline.contents.val.events
       IN  /\ DOMAIN events = {0, 1, 2}
           /\ events[0] # events[1]
           /\ range(events, 0, 2) = << <<0, events[0]>>, <<1, events[1]>> >>
           /\ range(events, 1, 1) = <<>>

StoreUntouched ==
    /\ DOMAIN blobs' = DOMAIN blobs
    /\ \A id \in DOMAIN blobs : blobs'[id].contents = blobs[id].contents
    /\ timeline'.contents = timeline.contents

\* C14: a checkout that returns an error (IdNotFound, AlreadyRetrieved, the
\* timeline's None, or lib.rs's MismatchedType) leaves the store as it was:
\* none of its steps, from the call to the return, changes the set of known
\* ids, the occupant of any slot or any handle. The wrong-type panic of
\* memory_repo.rs puts the value back as well before it unwinds.
C14_FailedCheckoutFrame ==
    [][\A t \in Threads :
        /\ (ret'[t] # ret[t] /\ ret'[t].kind = "IdNotFound")
            => StoreUntouched /\ held' = held /\ pc' = pc
        /\ (pc[t] \in {"idle", "lend_lock"} /\ pc'[t] \in {"lend_lock", "lend_locked"} \ {pc[t]})
            => StoreUntouched /\ held' = held
        /\ (CheckoutEnds(t) /\ ret'[t].kind # "Ok")
            => /\ StoreUntouched /\ held' = held
               /\ ret'[t].kind \in {"AlreadyRetrieved", "None", "MismatchedType", "panic"}
               /\ ret'[t].kind \in {"AlreadyRetrieved", "None"}
                    <=> Slot(op[t].slot).contents = [tag |-> "None"]]_vars

\* A checkout has just returned MismatchedType: the value it took out to
\* look at is back in the slot.
C14_Witness ==
    \E t \in Threads :
        /\ ret[t].kind = "MismatchedType"
        /\ blobs[ret[t].slot].contents.tag \in {"EventBody", "EventInstance"}
        /\ ~blobs[ret[t].slot].locked

\* C15: slots persist: no step removes an id from the store, so a checkout
\* fails with IdNotFound only for an id no insert has returned.
C15_SlotsPersist ==
    [][/\ DOMAIN blobs \subseteq DOMAIN blobs'
       /\ \A t \in Threads :
            (ret'[t] # ret[t] /\ ret'[t].kind = "IdNotFound")
                => ret'[t].slot \notin DOMAIN blobs]_vars

\* The slot of one id has been through a checkout and a release and is
\* checked out again, after the store got a slot for every other id.
C15_Witness ==
    \E t \in Threads :
        /\ DOMAIN blobs = Ids
        /\ ret[t].kind = "Ok"
        /\ ret[t].slot \in Ids
        /\ \E u \in Threads \ {t} : \E i \in 1..Len(held[u]) :
            held[u][i].home_slot \in Ids \ {ret[t].slot}

C17_ReleaseIntoOccupiedPanics ==
    [][\A t \in Threads :
        (pc[t] = "drop_locked" /\ pc'[t] # "drop_locked"
            /\ Slot(op[t].slot).contents # [tag |-> "None"])
            => /\ ret'[t] = [kind |-> "panic",
                             msg |-> "RepoRef was dropped but its home slot was already filled"]
               /\ pc'[t] \in {"unwind", "aborted"}
               /\ blobs'[op[t].slot].contents = blobs[op[t].slot].contents
               /\ held'[t] = <<>>]_vars

\* The release has panicked and the slot holds a value that is not the one
\* the handle carried.
C17_Witness ==
    /\ pc[MainThread] = "unwind"
    /\ ret[MainThread].kind = "panic"
    /\ held[MainThread] = <<>>
    /\ \E id \in DOMAIN blobs :
        /\ blobs[id].contents = [tag |-> "EventBody",
                                 val |-> [summary |-> "Standup", description |-> ""]]
        /\ blobs[id].poisoned

\* The slots the store has: the timeline's and one per known id.
KnownSlots == {TimelineSlot} \cup DOMAIN blobs

\* C18: conservation: in every reachable state the value of every slot of
\* the store is in exactly one place: the slot is empty exactly when one
\* live handle holds its value, and occupied exactly when no live handle
\* for it exists; every live handle belongs to a slot of the store, and no
\* thread was aborted with a value in its hands.
C18_Conservation ==
    /\ \A s \in KnownSlots :
        /\ Slot(s).contents = [tag |-> "None"] <=> Cardinality(LiveOn(s)) = 1
        /\ Slot(s).contents # [tag |-> "None"] <=> LiveOn(s) = {}
        /\ Slot(s).contents # [tag |-> "None"]
            => Slot(s).contents.tag \in {"Timeline", "EventBody", "EventInstance"}
    /\ \A h \in Live : held[h[1]][h[2]].home_slot \in KnownSlots
    /\ Cardinality(Live) + Cardinality({s \in KnownSlots : Slot(s).contents # [tag |-> "None"]})
        = Cardinality(KnownSlots)
    /\ \A t \in Threads : pc[t] # "aborted"

\* A thread that panicked on a checkout has unwound and is gone: every
\* value is in its slot again, except the one the other thread holds and the
\* timeline, which it holds as well.
C18_Witness ==
    \E t \in Threads, u \in Threads : \E i \in DOMAIN blobs, j \in DOMAIN blobs :
        /\ t # u /\ i # j
        /\ pc[t] = "dead"
        /\ held[t] = <<>>
        /\ blobs[i].contents # None /\ blobs[i].poisoned
        /\ blobs[j].contents = None
        /\ timeline.contents = None
        /\ Len(held[u]) = 2

\* Slot s after this step.
SlotAfter(s) == IF s = TimelineSlot THEN timeline' ELSE blobs'[s]

\* C19: each slot is its own unit of exclusion: a step of a checkout or of
\* a release of slot A (taking its lock, and what is done under it) leaves
\* every other slot of the store, the timeline's included, exactly as it
\* was, a write through a handle changes no slot at all, and whether a
\* checkout of B succeeds is decided by what slot B holds alone.
C19_SlotIndependence ==
    [][\A t \in Threads :
        /\ (pc'[t] # pc[t] /\ pc'[t] \in {"lend_lock", "lend_locked", "drop_locked"})
            => /\ \A b \in KnownSlots \ {op'[t].slot} : SlotAfter(b) = Slot(b)
               /\ SlotAfter(op'[t].slot).contents = Slot(op'[t].slot).contents
        /\ (pc'[t] # pc[t] /\ pc[t] \in {"lend_locked", "drop_locked"})
            => \A b \in KnownSlots \ {op[t].slot} : SlotAfter(b) = Slot(b)
        /\ (pc'[t] = pc[t] /\ Len(held'[t]) = Len(held[t]))
            => (held'[t] # held[t] => UNCHANGED <<timeline, blobs>>)
        /\ CheckoutEnds(t)
            => (ret'[t].kind = "Ok" <=> Slot(op[t].slot).contents.tag = op[t].ty)]_vars

\* One thread is under the lock of slot A, releasing a value it changed,
\* while the other has just checked out slot B and holds the timeline too.
C19_Witness ==
    \E t \in Threads, u \in Threads : \E a \in DOMAIN blobs, b \in DOMAIN blobs :
        /\ t # u /\ a # b
        /\ pc[t] = "drop_locked"
        /\ op[t].slot = a
        /\ blobs[a].locked
        /\ ret[u] = [kind |-> "Ok", slot |-> b]
        /\ Len(held[u]) = 2
        /\ timeline.contents = None

\* The timeline handles among the handles h of a thread, in order.
TimelineHandles(h) == SelectSeq(h, LAMBDA r : r.ty = "Timeline")

\* C20: the timeline is not re-synced: writing an instance (its time_span
\* too) through its handle, and releasing that handle, leave every entry of
\* the timeline, in its slot or in a live timeline handle, as it was; only
\* the released instance's own slot changes, to the value written.
C20_TimelineNotResynced ==
    [][\A t \in Threads :
        /\ (pc[t] = "idle" /\ pc'[t] = "idle" /\ Len(held'[t]) = Len(held[t])
                /\ \E i \in 1..Len(held[t]) :
                    held[t][i].ty # "Timeline" /\ held'[t][i] # held[t][i])
            => /\ timeline' = timeline
               /\ TimelineHandles(held'[t]) = TimelineHandles(held[t])
        /\ (ReleaseEnds(t) /\ op[t].slot # TimelineSlot)
            => /\ timeline' = timeline
               /\ TimelineHandles(held'[t]) = TimelineHandles(held[t])
               /\ blobs'[op[t].slot].contents
                    = [tag |-> op[t].ty, val |-> held[t][op[t].h].data]]_vars

\* The timeline names an instance at a time that is no longer the earliest
\* time of the instance in the store: its time_span was changed through a
\* handle after add_event recorded it and the handle was released.
C20_Witness ==
    /\ pc[MainThread] = "idle"
    /\ held[MainThread] = <<>>
    /\ timeline.contents.tag = "Timeline"
    /\ DOMAIN blobs = Ids
    /\ \E id \in DOMAIN blobs :
        /\ blobs[id].contents.tag = "EventInstance"
        /\ blobs[blobs[id].contents.val.body].contents.tag = "EventBody"
        /\ DOMAIN timeline.contents.val.events = {0}
        /\ timeline.contents.val.events[0] = id
        /\ earliest(blobs[id].contents.val.time_span) = 1

\* The kind of the value v as its Rust type tells it: an EventBody has a
\* summary, an EventInstance a time_span, a Timeline its events.
KindOf(v) ==
    IF "summary" \in DOMAIN v THEN "EventBody"
    ELSE IF "time_span" \in DOMAIN v THEN "EventInstance"
    ELSE "Timeline"

\* The kinds recorded for slot s in the given slot and handles: the tag of
\* its occupant and the type of every handle lent from it.
KindsOf(slot, handles, s) ==
    (IF slot.contents = [tag |-> "None"] THEN {} ELSE {slot.contents.tag})
        \cup {handles[t][i].ty : <<t, i>> \in
                {x \in Threads \X (1..(MaxIds + 2)) :
                    /\ x[2] <= Len(handles[x[1]])
                    /\ handles[x[1]][x[2]].home_slot = s}}

\* C21: the kind stored under an id never changes: from the insert that
\* created it on, the slot of an id holds, or has lent out, a value of one
\* kind only, EventBody for an id of add_event_body and EventInstance for
\* one of add_event_instance, and the variant an occupied slot is tagged
\* with is the kind of the value in it, whatever was checked out, tried with
\* the wrong type, written or released.
C21_KindNeverChanges ==
    /\ [](\A id \in DOMAIN blobs :
            /\ Cardinality(KindsOf(blobs[id], held, id)) = 1
            /\ KindsOf(blobs[id], held, id) \subseteq {"EventBody", "EventInstance"}
            /\ blobs[id].contents # [tag |-> "None"]
                => KindOf(blobs[id].contents.val) = blobs[id].contents.tag
            /\ \A h \in LiveOn(id) :
                KindOf(held[h[1]][h[2]].data) = held[h[1]][h[2]].ty)
    /\ [][\A id \in DOMAIN blobs' :
            IF id \in DOMAIN blobs
            THEN KindsOf(blobs'[id], held', id) = KindsOf(blobs[id], held, id)
            ELSE \E t \in Threads :
                    /\ Len(held'[t]) = Len(held[t]) + 1
                    /\ NewHandle(t).home_slot = id
                    /\ KindsOf(blobs'[id], held', id) = {KindOf(NewHandle(t).data)}]_vars

\* A checkout asked for an EventInstance under the id of a body and
\* panicked: the slot, poisoned, still holds the EventBody.
C21_Witness ==
    \E t \in Threads, id \in DOMAIN blobs :
        /\ ret[t] = [kind |-> "panic", msg |-> "entry was not the expected type"]
        /\ blobs[id].poisoned
        /\ blobs[id].contents.tag = "EventBody"
        /\ "summary" \in DOMAIN blobs[id].contents.val

\* The result of the derived operations of the command in progress.
Derived == ret[MainThread].kind = "Derived"

\* C22: on every span the parser hands over, earliest() is t for
\* Instant(t) and start for Interval{start, duration}, latest() is t for
\* Instant(t) and start + duration for an interval; so earliest() <=
\* latest() whenever the duration is not negative, and the point latest()
\* of an interval is not within the interval.
C22_DerivedOperations ==
    Derived =>
        LET ts == ret[MainThread].span
            e  == ret[MainThread].earliest
            l  == ret[MainThread].latest
        IN  /\ ts.tag = "Instant" => e = ts.t /\ l = ts.t
            /\ ts.tag = "Interval" =>
                /\ e = ts.start
                /\ l = ts.start + ts.duration
                /\ ts.duration >= 0 => e <= l
                /\ ~within(ts, l)
                /\ ts.duration > 0 => within(ts, e)

\* An interval of two hours: its earliest point is two hours before its
\* latest.
C22_Witness ==
    /\ Derived
    /\ ret[MainThread].span.tag = "Interval"
    /\ ret[MainThread].span.duration = 7200
    /\ ret[MainThread].latest = ret[MainThread].earliest + 7200

\* The parser returned to the command in progress.
Parsed == ret[MainThread].kind = "Parsed"

\* C23: every interval parse_lenient_time_span returns has a duration that
\* is not negative (its end is not before its start), whatever accepted
\* text it was read from, the "start/end-time" shorthand included.
C23_DurationNotNegative ==
    (Parsed /\ ret[MainThread].out # [tag |-> "None"]
            /\ ret[MainThread].out.val.tag = "Interval")
        => ret[MainThread].out.val.duration >= 0

\* The date and time of a written instant read as they stand, without any
\* zone: seconds since the epoch, or None when the text, the date or the
\* time of day is not valid.
WallClock(w, now_year) ==
    IF date(w.date) = None \/ time(w.time) = None THEN None
    ELSE LET d == parse_date(date(w.date).val, now_year)
             t == time(w.time).val
         IN  IF d = None THEN None
             ELSE and_hms_opt(d.val, t.hour, t.min, t.sec)

\* The hours and minutes of a written fixed offset as a number of seconds,
\* without the sign; None when a field has the wrong number of digits.
WrittenOffsetSeconds(w) ==
    IF Len(w.hours) \notin 1..2 \/ Len(w.mins) # 2 THEN None
    ELSE Some(parse_u32(w.hours) * 3600 + parse_u32(w.mins) * 60)

\* C24: an instant written with "Z" or with a fixed offset is converted to
\* UTC by subtracting the signed offset: the wall clock reading T with
\* +HH:MM is the UTC instant T - HH:MM, with -HH:MM it is T + HH:MM, with
\* "Z" it is T; nothing is returned when the reading is not a valid date
\* and time or the offset is malformed or a day or more.
C24_OffsetToUtc ==
    (Parsed /\ frame[MainThread].input.form = "instant"
            /\ frame[MainThread].input.start.offset.form \in {"Z", "fixed"})
        => LET w   == frame[MainThread].input.start
               T   == WallClock(w, frame[MainThread].now_year)
               out == ret[MainThread].out
           IN  IF T = None THEN out = None
               ELSE IF w.offset.form = "Z" THEN out = Some(Instant(T.val))
               ELSE LET off == WrittenOffsetSeconds(w.offset)
                    IN  IF off = None THEN out = None
                        ELSE IF off.val >= 86400 THEN out = None
                        ELSE IF w.offset.sign = "+"
                        THEN out = Some(Instant(T.val - off.val))
                        ELSE out = Some(Instant(T.val + off.val))

\* "2023-02-28T14:30:15-02:30" was parsed: 17:00:15 UTC of that day,
\* 1677603615 seconds after the epoch.
C24_Witness ==
    /\ Parsed
    /\ frame[MainThread].input.form = "instant"
    /\ frame[MainThread].input.start =
        [date |-> [year |-> Some(<<2, 0, 2, 3>>), month |-> <<2>>, day |-> <<2, 8>>],
         time |-> [hour |-> <<1, 4>>, min |-> <<3, 0>>, sec |-> Some(<<1, 5>>)],
         offset |-> [form |-> "fixed", sign |-> "-", hours |-> <<0, 2>>,
                     mins |-> <<3, 0>>]]
    /\ ret[MainThread].out = Some(Instant(1677603615))

\* The UTC instant a written instant parses to on its own, in the
\* surroundings of the command in progress; None when it does not parse.
AloneAt(w) ==
    LET r == parse_lenient_time_span([form |-> "instant", start |-> w],
                                     frame[MainThread].now_year,
                                     frame[MainThread].local)
    IN  IF r.out = [tag |-> "None"] THEN [tag |-> "None"]
        ELSE [tag |-> "Some", val |-> r.out.val.t]

\* The end of the shorthand written in full: the end time with the date
\* and the offset of the start as they were written.
EndInFull(input) ==
    [date |-> input.start.date, time |-> input.end, offset |-> input.start.offset]

\* C25: "start/end" parses to Interval{start, duration = end - start},
\* start and end being the instants the two texts parse to on their own;
\* in the shorthand "start/end-time" the end takes its date and its offset
\* from the start, so the result is that of the same input with the end
\* written in full with the start's date and offset.
C25_StartEndInterval ==
    /\ (Parsed /\ frame[MainThread].input.form = "instant/instant")
        => LET start == AloneAt(frame[MainThread].input.start)
               end   == AloneAt(frame[MainThread].input.end)
           IN  ret[MainThread].out =
                   IF start = [tag |-> "None"] \/ end = [tag |-> "None"]
                   THEN [tag |-> "None"]
                   ELSE [tag |-> "Some",
                         val |-> [tag |-> "Interval", start |-> start.val,
                                  duration |-> end.val - start.val]]
    /\ (Parsed /\ frame[MainThread].input.form = "instant/time")
        => LET start == AloneAt(frame[MainThread].input.start)
               end   == AloneAt(EndInFull(frame[MainThread].input))
           IN  /\ ret[MainThread].out =
                   IF start = [tag |-> "None"] \/ end = [tag |-> "None"]
                   THEN [tag |-> "None"]
                   ELSE [tag |-> "Some",
                         val |-> [tag |-> "Interval", start |-> start.val,
                                  duration |-> end.val - start.val]]
               /\ ret[MainThread].out =
                   parse_lenient_time_span(
                       [form |-> "instant/instant",
                        start |-> frame[MainThread].input.start,
                        end |-> EndInFull(frame[MainThread].input)],
                       frame[MainThread].now_year, frame[MainThread].local).out

\* "2023-02-28T1:30+2:00/14:30:15" was parsed: the interval from 23:30 UTC
\* of the day before (1677540600) that lasts 13 hours and 15 seconds, the
\* end being 14:30:15 at +2:00 on the start's date.
C25_Witness ==
    /\ Parsed
    /\ frame[MainThread].input =
        [form |-> "instant/time",
         start |-> [date |-> [year |-> Some(<<2, 0, 2, 3>>), month |-> <<2>>,
                              day |-> <<2, 8>>],
                    time |-> [hour |-> <<1>>, min |-> <<3, 0>>, sec |-> None],
                    offset |-> [form |-> "fixed", sign |-> "+", hours |-> <<2>>,
                                mins |-> <<0, 0>>]],
         end |-> [hour |-> <<1, 4>>, min |-> <<3, 0>>, sec |-> Some(<<1, 5>>)]]
    /\ ret[MainThread].out = Some(Interval(1677540600, 46815))

====
